---- MODULE Spec2Model ----
(***************************************************************************)
(* Dictation app: the page component (recording, transcription, polish),   *)
(* the LLM configuration panel (validation, Save to local storage) and the *)
(* two API routes (/api/polish, /api/transcribe).                          *)
(*                                                                         *)
(* JavaScript values: strings are TLA+ strings; `undefined` and `null` are *)
(* the two distinguished strings UNDEF and NULL.  Truthiness follows       *)
(* JavaScript: "", undefined and null are falsy, every other value used    *)
(* here (a File included, whatever its size) is truthy.                    *)
(***************************************************************************)
EXTENDS Integers, Sequences, FiniteSets, TLC

VARIABLES
  \* ---- page component state (useState / useRef) ----
  isRecording, transcriptionMode, rawTranscript, polishedTranscript,
  isPolishing, isTranscribing, showLLMConfig,
  transcriptionConfig, polishingConfig, systemPrompt, examples,
  recognition,         \* the SpeechRecognition object: state "idle" | "listening" | "stopping"
  micPending,          \* getUserMedia promises not yet settled (each: the start request's mode)
  recorders,           \* every MediaRecorder created so far: state "recording" | "stopping" | "inactive"
  mediaRecorderRef,    \* index into recorders, 0 = null
  transcribeInFlight,  \* /api/transcribe requests awaiting their response
  polishInFlight,      \* /api/polish requests awaiting their response
  \* ---- browser local storage ----
  localStorage,
  atSave,              \* history: the two configurations in memory at the last successful Save
  \* ---- observation of the last step (history) ----
  lastOp,              \* what the last handler did
  polishCall,          \* last request handled by /api/polish and its result
  transcribeCall       \* last request handled by /api/transcribe and its result

vars == << isRecording, transcriptionMode, rawTranscript, polishedTranscript,
           isPolishing, isTranscribing, showLLMConfig,
           transcriptionConfig, polishingConfig, systemPrompt, examples,
           recognition, micPending, recorders, mediaRecorderRef,
           transcribeInFlight, polishInFlight, localStorage, atSave,
           lastOp, polishCall, transcribeCall >>

----------------------------------------------------------------------------
(* JavaScript values *)

UNDEF == "<undefined>"
NULL  == "<null>"

Falsy(x) == x \in {"", UNDEF, NULL}
Truthy(x) == ~Falsy(x)

\* a || b
Or(a, b) == IF Truthy(a) THEN a ELSE b

\* destructuring default: `x = d` applies only when the property is undefined
Default(x, d) == IF x = UNDEF THEN d ELSE x

----------------------------------------------------------------------------
(* /api/polish *)

\* One piece of the prompt string.  The prompt is the concatenation of its
\* pieces in order; a piece is literal text or one rendered example.
Text(s) == [t |-> "text", k |-> 0, a |-> s, b |-> ""]
ExamplePiece(k, ex) == [t |-> "example", k |-> k, a |-> ex.input, b |-> ex.output]

BLANK == Text("\n\n")
INTRO == Text("Here are some examples of the desired output format:\n\n")
ANNOUNCE == Text("Now please process the following transcript:\n\n")

\* (variant: examples numbered from 0)
RECURSIVE forEachExampleFromZero(_, _, _)
forEachExampleFromZero(prompt, exs, index) ==
  IF index >= Len(exs) THEN prompt
  ELSE forEachExampleFromZero(Append(prompt, ExamplePiece(index, exs[index + 1])),
                              exs, index + 1)

\* examples.forEach((example, index) => prompt += `Example ${index + 1}: ...`)
RECURSIVE forEachExample(_, _, _)
forEachExample(prompt, exs, index) ==
  IF index >= Len(exs) THEN prompt
  ELSE forEachExample(Append(prompt, ExamplePiece(index + 1, exs[index + 1])),
                      exs, index + 1)

BuildPrompt(sysPrompt, exs, transcript) ==
  LET p0 == << Text(sysPrompt), BLANK >>
      p1 == IF Len(exs) > 0
              THEN Append(forEachExample(Append(p0, INTRO), exs, 0), ANNOUNCE)
              ELSE p0
  IN  Append(p1, Text(transcript))

\* An adapter as constructed: which SDK factory, and the options handed to
\* it (UNDEF = option not passed).
Adapter(sdk, model, apiKey, baseURL, apiVersion) ==
  [sdk |-> sdk, model |-> model, apiKey |-> apiKey,
   baseURL |-> baseURL, apiVersion |-> apiVersion]

Built(ad) == [threw |-> FALSE, adapter |-> ad, error |-> ""]
Threw(msg) == [threw |-> TRUE, adapter |-> Adapter(UNDEF, UNDEF, UNDEF, UNDEF, UNDEF),
               error |-> msg]

\* (variant: the google case builds the anthropic adapter)
PolishSelectAdapterSlip(provider, model, apiKey, baseURL, apiVersion) ==
  CASE provider = "openai" ->
         IF Truthy(apiKey) THEN Built(Adapter("openai", model, apiKey, UNDEF, UNDEF))
                           ELSE Built(Adapter("openai", model, UNDEF, UNDEF, UNDEF))
    [] provider = "azure-openai" ->
         Built(Adapter("azure", model, apiKey,
                       IF Truthy(baseURL) THEN baseURL ELSE UNDEF,
                       IF Truthy(apiVersion) THEN apiVersion ELSE UNDEF))
    [] provider = "anthropic" ->
         IF Falsy(apiKey) THEN Threw("API key required for Anthropic")
         ELSE Built(Adapter("anthropic", model, apiKey, UNDEF, UNDEF))
    [] provider = "google" ->
         IF Falsy(apiKey) THEN Threw("API key required for Google")
         ELSE Built(Adapter("anthropic", model, apiKey, UNDEF, UNDEF))
    [] provider = "mistral" ->
         IF Falsy(apiKey) THEN Threw("API key required for Mistral")
         ELSE Built(Adapter("mistral", model, apiKey, UNDEF, UNDEF))
    [] provider = "openai-compatible" ->
         IF Falsy(baseURL) THEN Threw("Base URL required for OpenAI-compatible provider")
         ELSE Built(Adapter("openai-compatible", model, apiKey, baseURL, UNDEF))
    [] OTHER ->
         Built(Adapter("openai", "gpt-4o-mini", UNDEF, UNDEF, UNDEF))

\* (variant: the default case keeps the request's model and key)
PolishSelectAdapterKeepsModel(provider, model, apiKey, baseURL, apiVersion) ==
  CASE provider = "openai" ->
         IF Truthy(apiKey) THEN Built(Adapter("openai", model, apiKey, UNDEF, UNDEF))
                           ELSE Built(Adapter("openai", model, UNDEF, UNDEF, UNDEF))
    [] provider = "azure-openai" ->
         Built(Adapter("azure", model, apiKey,
                       IF Truthy(baseURL) THEN baseURL ELSE UNDEF,
                       IF Truthy(apiVersion) THEN apiVersion ELSE UNDEF))
    [] provider = "anthropic" ->
         IF Falsy(apiKey) THEN Threw("API key required for Anthropic")
         ELSE Built(Adapter("anthropic", model, apiKey, UNDEF, UNDEF))
    [] provider = "google" ->
         IF Falsy(apiKey) THEN Threw("API key required for Google")
         ELSE Built(Adapter("google", model, apiKey, UNDEF, UNDEF))
    [] provider = "mistral" ->
         IF Falsy(apiKey) THEN Threw("API key required for Mistral")
         ELSE Built(Adapter("mistral", model, apiKey, UNDEF, UNDEF))
    [] provider = "openai-compatible" ->
         IF Falsy(baseURL) THEN Threw("Base URL required for OpenAI-compatible provider")
         ELSE Built(Adapter("openai-compatible", model, apiKey, baseURL, UNDEF))
    [] OTHER ->
         Built(Adapter("openai", model, apiKey, UNDEF, UNDEF))

PolishSelectAdapter(provider, model, apiKey, baseURL, apiVersion) ==
  CASE provider = "openai" ->
         IF Truthy(apiKey) THEN Built(Adapter("openai", model, apiKey, UNDEF, UNDEF))
                           ELSE Built(Adapter("openai", model, UNDEF, UNDEF, UNDEF))
    [] provider = "azure-openai" ->
         Built(Adapter("azure", model, apiKey,
                       IF Truthy(baseURL) THEN baseURL ELSE UNDEF,
                       IF Truthy(apiVersion) THEN apiVersion ELSE UNDEF))
    [] provider = "anthropic" ->
         IF Falsy(apiKey) THEN Threw("API key required for Anthropic")
         ELSE Built(Adapter("anthropic", model, apiKey, UNDEF, UNDEF))
    [] provider = "google" ->
         IF Falsy(apiKey) THEN Threw("API key required for Google")
         ELSE Built(Adapter("google", model, apiKey, UNDEF, UNDEF))
    [] provider = "mistral" ->
         IF Falsy(apiKey) THEN Threw("API key required for Mistral")
         ELSE Built(Adapter("mistral", model, apiKey, UNDEF, UNDEF))
    [] provider = "openai-compatible" ->
         IF Falsy(baseURL) THEN Threw("Base URL required for OpenAI-compatible provider")
         ELSE Built(Adapter("openai-compatible", model, apiKey, baseURL, UNDEF))
    [] OTHER ->
         Built(Adapter("openai", "gpt-4o-mini", UNDEF, UNDEF, UNDEF))

\* The remote call is external: it fails, or succeeds with some text.
ProviderTexts == {"", "remote text"}
NetOutcomes == {[ok |-> FALSE, text |-> ""]} \cup {[ok |-> TRUE, text |-> t] : t \in ProviderTexts}

\* An outbound request to an AI provider.  `via` is the adapter handed to
\* generateText, or the direct HTTP call to OpenAI's transcription endpoint.
GenerateTextCall(adapter) == [kind |-> "generateText", via |-> adapter]
WhisperFetch(apiKey) ==
  [kind |-> "fetch https://api.openai.com/v1/audio/transcriptions",
   via |-> [sdk |-> "none", model |-> "whisper-1", apiKey |-> apiKey,
            baseURL |-> UNDEF, apiVersion |-> UNDEF]]

\* (variant: a failed remote call is answered with a local cleanup of the
\* transcript instead of being rethrown)
polishTextWithAIOrCleanup(transcript, sysPrompt, exs, provider, model, apiKey, baseURL, apiVersion, net) ==
  LET prompt == BuildPrompt(sysPrompt, exs, transcript)
      sel == PolishSelectAdapter(provider, model, apiKey, baseURL, apiVersion)
  IN  IF sel.threw
        THEN [threw |-> TRUE, text |-> "", prompt |-> prompt,
              calls |-> << >>, adapters |-> << >>]
        ELSE [threw |-> FALSE,
              text |-> IF net.ok THEN net.text ELSE transcript,
              prompt |-> prompt,
              calls |-> << GenerateTextCall(sel.adapter) >>,
              adapters |-> << sel.adapter >>]

\* polishTextWithAI: builds the prompt, selects the adapter, calls generateText
\* with the prompt as the single user message.  Any exception is logged and
\* rethrown.
polishTextWithAI(transcript, sysPrompt, exs, provider, model, apiKey, baseURL, apiVersion, net) ==
  LET prompt == BuildPrompt(sysPrompt, exs, transcript)
      sel == PolishSelectAdapter(provider, model, apiKey, baseURL, apiVersion)
  IN  IF sel.threw
        THEN [threw |-> TRUE, text |-> "", prompt |-> prompt,
              calls |-> << >>, adapters |-> << >>]
        ELSE [threw |-> ~net.ok,
              text |-> IF net.ok THEN net.text ELSE "",
              prompt |-> prompt,
              calls |-> << GenerateTextCall(sel.adapter) >>,
              adapters |-> << sel.adapter >>]

\* An HTTP response, with what the handler did on the way: the adapters it
\* constructed, the outbound provider calls it made and the prompt it sent.
Response(status, field, value, error, calls, adapters, prompt) ==
  [status |-> status, field |-> field, value |-> value, error |-> error,
   calls |-> calls, adapters |-> adapters, prompt |-> prompt]

\* if (!transcript || !systemPrompt)
PolishMissing(req) == Falsy(req.transcript) \/ Falsy(req.systemPrompt)

\* (variant: the 500 body carries the provider's error message, which quotes
\* the key it refused)
PolishPOSTWithErrorDetail(req, net) ==
  LET provider == Default(req.provider, "openai")
      model    == Default(req.model, "gpt-4o-mini")
  IN  IF PolishMissing(req)
        THEN Response(400, "error", "",
                      "Missing required fields: transcript and systemPrompt",
                      << >>, << >>, << >>)
        ELSE LET r == polishTextWithAI(req.transcript, req.systemPrompt, req.examples,
                                       provider, model, req.apiKey, req.baseURL,
                                       req.apiVersion, net)
             IN  IF r.threw
                   THEN Response(500, "error", "",
                                 IF Len(r.calls) > 0 /\ Truthy(req.apiKey)
                                   THEN "Incorrect API key provided: " \o req.apiKey
                                   ELSE "Failed to polish transcript",
                                 r.calls, r.adapters, r.prompt)
                   ELSE Response(200, "polishedText", r.text, "",
                                 r.calls, r.adapters, r.prompt)

\* POST /api/polish.  req is the parsed JSON body; an absent property is UNDEF
\* (an absent examples property is the empty list its default gives).
PolishPOST(req, net) ==
  LET provider == Default(req.provider, "openai")
      model    == Default(req.model, "gpt-4o-mini")
  IN  IF PolishMissing(req)
        THEN Response(400, "error", "",
                      "Missing required fields: transcript and systemPrompt",
                      << >>, << >>, << >>)
        ELSE LET r == polishTextWithAI(req.transcript, req.systemPrompt, req.examples,
                                       provider, model, req.apiKey, req.baseURL,
                                       req.apiVersion, net)
             IN  IF r.threw
                   THEN Response(500, "error", "", "Failed to polish transcript",
                                 r.calls, r.adapters, r.prompt)
                   ELSE Response(200, "polishedText", r.text, "",
                                 r.calls, r.adapters, r.prompt)

----------------------------------------------------------------------------
(* /api/transcribe *)

\* Values of the multipart "audio" field: absent, an empty string field, a
\* non-file string field, a zero-byte file, a recorded file.
AudioValues == {NULL, "", "not-a-file", "file:0-bytes", "file:webm"}
IsFile(a) == a \in {"file:0-bytes", "file:webm"}

\* (variant: the default case falls back to the OpenAI adapter, as the polish
\* route does)
TranscribeSelectAdapterFallsBack(provider, model, apiKey, baseURL, apiVersion) ==
  CASE provider = "openai" ->
         Built(Adapter("openai", model, apiKey, UNDEF, UNDEF))
    [] provider = "azure-openai" ->
         IF Falsy(apiKey) THEN Threw("API key required")
         ELSE Built(Adapter("azure", model, apiKey,
                            IF Truthy(baseURL) THEN baseURL ELSE UNDEF,
                            IF Truthy(apiVersion) THEN apiVersion ELSE UNDEF))
    [] provider = "anthropic" ->
         Built(Adapter("anthropic", model, apiKey, UNDEF, UNDEF))
    [] provider = "google" ->
         Built(Adapter("google", model, apiKey, UNDEF, UNDEF))
    [] provider = "mistral" ->
         Built(Adapter("mistral", model, apiKey, UNDEF, UNDEF))
    [] provider = "openai-compatible" ->
         IF Falsy(baseURL) THEN Threw("Base URL required")
         ELSE Built(Adapter("openai-compatible", model, apiKey, baseURL, UNDEF))
    [] OTHER -> Built(Adapter("openai", "gpt-4o-mini", UNDEF, UNDEF, UNDEF))

TranscribeSelectAdapter(provider, model, apiKey, baseURL, apiVersion) ==
  CASE provider = "openai" ->
         Built(Adapter("openai", model, apiKey, UNDEF, UNDEF))
    [] provider = "azure-openai" ->
         IF Falsy(apiKey) THEN Threw("API key required")
         ELSE Built(Adapter("azure", model, apiKey,
                            IF Truthy(baseURL) THEN baseURL ELSE UNDEF,
                            IF Truthy(apiVersion) THEN apiVersion ELSE UNDEF))
    [] provider = "anthropic" ->
         Built(Adapter("anthropic", model, apiKey, UNDEF, UNDEF))
    [] provider = "google" ->
         Built(Adapter("google", model, apiKey, UNDEF, UNDEF))
    [] provider = "mistral" ->
         Built(Adapter("mistral", model, apiKey, UNDEF, UNDEF))
    [] provider = "openai-compatible" ->
         IF Falsy(baseURL) THEN Threw("Base URL required")
         ELSE Built(Adapter("openai-compatible", model, apiKey, baseURL, UNDEF))
    [] OTHER -> Threw("Unsupported provider")

\* (variant: the model is not checked)
TranscribeMissingNoModel(req) == Falsy(req.audio) \/ Falsy(req.provider)

\* if (!audioFile || !provider || !model)
TranscribeMissing(req) == Falsy(req.audio) \/ Falsy(req.provider) \/ Falsy(req.model)

\* POST /api/transcribe.  req holds formData.get(...) of each field (NULL when
\* the field is absent).
TranscribePOST(req, net) ==
  LET baseURL    == Or(req.baseURL, UNDEF)
      apiVersion == Or(req.apiVersion, UNDEF)
  IN  IF TranscribeMissing(req)
        THEN Response(400, "error", "", "Missing required fields", << >>, << >>, "")
      ELSE IF ~IsFile(req.audio)   \* audioFile.arrayBuffer() throws on a string
        THEN Response(500, "error", "", "Failed to transcribe audio", << >>, << >>, "")
      ELSE
        LET sel == TranscribeSelectAdapter(req.provider, req.model, req.apiKey,
                                           baseURL, apiVersion)
        IN  IF sel.threw
              THEN Response(400, "error", "", sel.error, << >>, << >>, "")
            ELSE IF req.provider = "openai"
              THEN IF Falsy(req.apiKey)
                     THEN Response(400, "error", "", "API key required",
                                   << >>, << sel.adapter >>, "")
                   ELSE LET prompt == Or(req.systemPrompt, "Transcribe this audio accurately.")
                        IN  IF net.ok
                              THEN Response(200, "transcription", net.text, "",
                                            << WhisperFetch(req.apiKey) >>,
                                            << sel.adapter >>, prompt)
                              ELSE Response(500, "error", "", "Failed to transcribe audio",
                                            << WhisperFetch(req.apiKey) >>,
                                            << sel.adapter >>, prompt)
            ELSE LET prompt == Or(req.systemPrompt, "Transcribe this audio recording accurately. Provide only the transcription without any additional commentary.")
                 IN  IF net.ok
                       THEN Response(200, "transcription", net.text, "",
                                     << GenerateTextCall(sel.adapter) >>,
                                     << sel.adapter >>, prompt)
                       ELSE Response(500, "error", "", "Failed to transcribe audio",
                                     << GenerateTextCall(sel.adapter) >>,
                                     << sel.adapter >>, prompt)

\* The earlier revision of the route, still in the tree under src/app: it
\* also requires the API key and knows three providers only.
LegacySelectAdapter(provider, model, apiKey) ==
  CASE provider = "openai"    -> Built(Adapter("openai", model, apiKey, UNDEF, UNDEF))
    [] provider = "anthropic" -> Built(Adapter("anthropic", model, apiKey, UNDEF, UNDEF))
    [] provider = "google"    -> Built(Adapter("google", model, apiKey, UNDEF, UNDEF))
    [] OTHER -> Threw("Unsupported provider")

\* if (!audioFile || !provider || !model || !apiKey)
LegacyTranscribeMissing(req) ==
  Falsy(req.audio) \/ Falsy(req.provider) \/ Falsy(req.model) \/ Falsy(req.apiKey)

LegacyTranscribePOST(req, net) ==
  IF LegacyTranscribeMissing(req)
    THEN Response(400, "error", "", "Missing required fields", << >>, << >>, "")
  ELSE IF ~IsFile(req.audio)
    THEN Response(500, "error", "", "Failed to transcribe audio", << >>, << >>, "")
  ELSE
    LET sel == LegacySelectAdapter(req.provider, req.model, req.apiKey)
        call == IF req.provider = "openai" THEN WhisperFetch(req.apiKey)
                ELSE GenerateTextCall(sel.adapter)
        prompt == IF req.provider = "openai"
                    THEN Or(req.systemPrompt, "Transcribe this audio accurately.")
                    ELSE Or(req.systemPrompt, "Transcribe this audio recording accurately. Provide only the transcription without any additional commentary.")
    IN  IF sel.threw
          THEN Response(400, "error", "", sel.error, << >>, << >>, "")
        ELSE IF net.ok
          THEN Response(200, "transcription", net.text, "", << call >>, << sel.adapter >>, prompt)
          ELSE Response(500, "error", "", "Failed to transcribe audio",
                        << call >>, << sel.adapter >>, prompt)

----------------------------------------------------------------------------
(* LLM configuration objects, JSON and local storage *)

ConfigFields == {"provider", "model", "apiKey", "baseURL", "apiVersion"}

\* A configuration is a JavaScript object: a function from the property
\* names it owns to their values.  Reading a property it does not own
\* gives undefined.
Get(cfg, f) == IF f \in DOMAIN cfg THEN cfg[f] ELSE UNDEF

\* { ...cfg, f: v }
Spread(cfg, f, v) == [g \in (DOMAIN cfg) \cup {f} |-> IF g = f THEN v ELSE cfg[g]]

\* useState initial value of transcriptionConfig and of polishingConfig
DefaultConfig ==
  [provider |-> "openai", model |-> "gpt-4o", apiKey |-> "", baseURL |-> "", apiVersion |-> ""]

\* (variant: empty strings are left out as well)
JSONstringifyDropEmpty(obj) == [f \in {g \in DOMAIN obj : Truthy(obj[g])} |-> obj[f]]

\* JSON.stringify(obj): properties whose value is undefined are left out.
JSONstringify(obj) == [f \in {g \in DOMAIN obj : obj[g] # UNDEF} |-> obj[f]]

\* JSON.parse(text): the object with exactly the properties of the text.
JSONparse(text) == [f \in DOMAIN text |-> text[f]]

TKey == "dictation-transcription-config"
PKey == "dictation-polishing-config"

EmptyStorage == [k \in {} |-> DefaultConfig]
HasItem(st, k) == k \in DOMAIN st
setItem(st, k, v) == [x \in (DOMAIN st) \cup {k} |-> IF x = k THEN v ELSE st[x]]

\* (variant: the Azure base URL is not checked)
validateConfigNoAzureURL(cfg, kind) ==
  IF Falsy(Get(cfg, "provider")) THEN kind \o ": Select a provider"
  ELSE IF Falsy(Get(cfg, "model"))
    THEN kind \o ": Select or enter a model"
              \o (IF Get(cfg, "provider") = "azure-openai" THEN " (deployment name)" ELSE "")
  ELSE IF Get(cfg, "provider") # "openai-compatible" /\ Falsy(Get(cfg, "apiKey"))
    THEN kind \o ": API key is required"
  ELSE IF Get(cfg, "provider") = "openai-compatible" /\ Falsy(Get(cfg, "baseURL"))
    THEN kind \o ": Base URL is required for OpenAI-compatible providers"
  ELSE ""

\* validateConfig(cfg, kind): "" stands for null (accepted), otherwise the message.
validateConfig(cfg, kind) ==
  IF Falsy(Get(cfg, "provider")) THEN kind \o ": Select a provider"
  ELSE IF Falsy(Get(cfg, "model"))
    THEN kind \o ": Select or enter a model"
              \o (IF Get(cfg, "provider") = "azure-openai" THEN " (deployment name)" ELSE "")
  ELSE IF Get(cfg, "provider") # "openai-compatible" /\ Falsy(Get(cfg, "apiKey"))
    THEN kind \o ": API key is required"
  ELSE IF Get(cfg, "provider") = "azure-openai" /\ Falsy(Get(cfg, "baseURL"))
    THEN kind \o ": Azure base URL is required (e.g. https://<resource>.openai.azure.com)"
  ELSE IF Get(cfg, "provider") = "openai-compatible" /\ Falsy(Get(cfg, "baseURL"))
    THEN kind \o ": Base URL is required for OpenAI-compatible providers"
  ELSE ""

\* PROVIDERS[...].extra
getExtraForProvider(provider) ==
  CASE provider = "azure-openai" -> {"baseURL", "deploymentNote", "apiVersion"}
    [] provider = "openai-compatible" -> {"baseURL"}
    [] OTHER -> {}

----------------------------------------------------------------------------
(* Bounds of the model *)

\* Values typed or selected in the configuration panel.
\* Every provider the panel offers is modelled in validateConfig and in the
\* routes; the panel is explored with these selections on each side.
ProviderChoices(side) ==
  IF side = "transcription" THEN {"openai", "azure-openai", "openai-compatible"}
                            ELSE {"openai", "openai-compatible"}
ModelChoices    == {"", "gpt-4o"}
KeyChoices      == {"", "sk-1"}
URLChoices      == {"", "http://localhost:11434/v1"}
VersionChoices  == {"", "preview"}
Sides           == {"transcription", "polishing"}

DEFAULT_PROMPT == "Polish and improve the following transcription. Fix grammar, punctuation, and sentence structure while maintaining the original meaning and tone. Make it clear and professional:"
PromptChoices  == {DEFAULT_PROMPT, "Clean up this transcription by fixing obvious errors and improving readability, but keep the casual, conversational tone:", ""}
ExampleTexts   == {"", "um hello"}
MaxExamples == 1

\* Text typed into the raw / polished text areas, and spoken phrases.
RawChoices      == {" ", "typed"}
PolishedChoices == {"edited"}
Spoken          == "spoken"

\* MediaRecorders created (or being set up) in one page life, and polish
\* requests awaiting their response.
MaxRecorders == 2
MaxPolishInFlight == 2
\* The same two, where recording and polishing are explored together.
MaxPageRecorders == 1
MaxPagePolish == 1

----------------------------------------------------------------------------
(* Frames *)

recVars == << isRecording, recognition, micPending, recorders, mediaRecorderRef,
              transcribeInFlight, isTranscribing >>
polishVars == << isPolishing, polishInFlight >>
textVars == << rawTranscript, polishedTranscript >>
settingsVars == << transcriptionMode, systemPrompt, examples >>
cfgVars == << transcriptionConfig, polishingConfig >>
apiVars == << polishCall, transcribeCall >>

\* startedIn: the transcription mode of the start request that began the capture.
IdleRecognition == [state |-> "idle", startedIn |-> "none"]
\* recognitionRef.current stays null in a browser without webkitSpeechRecognition
NoRecognition == [state |-> "unsupported", startedIn |-> "none"]

NoCall == [req |-> << >>, res |-> << >>, route |-> "none", net |-> [ok |-> FALSE, text |-> ""]]
NoSave == [saved |-> FALSE, t |-> DefaultConfig, p |-> DefaultConfig]

\* The component right after construction (useState initial values, refs null).
PageInit ==
  /\ isRecording = FALSE /\ transcriptionMode = "llm"
  /\ rawTranscript = "" /\ polishedTranscript = ""
  /\ isPolishing = FALSE /\ isTranscribing = FALSE /\ showLLMConfig = FALSE
  /\ systemPrompt = DEFAULT_PROMPT /\ examples = << >>
  /\ recognition \in {IdleRecognition, NoRecognition} /\ micPending = << >>
  /\ recorders = << >> /\ mediaRecorderRef = 0
  /\ transcribeInFlight = << >> /\ polishInFlight = << >>

----------------------------------------------------------------------------
(* LLM configuration panel *)

OpenLLMConfig ==
  /\ ~showLLMConfig
  /\ showLLMConfig' = TRUE
  /\ lastOp' = "panel"
  /\ UNCHANGED << recVars, polishVars, textVars, settingsVars, cfgVars, apiVars,
                  localStorage, atSave >>

CloseLLMConfig ==
  /\ showLLMConfig
  /\ showLLMConfig' = FALSE
  /\ lastOp' = "panel"
  /\ UNCHANGED << recVars, polishVars, textVars, settingsVars, cfgVars, apiVars,
                  localStorage, atSave >>

ConfigOf(side) == IF side = "transcription" THEN transcriptionConfig ELSE polishingConfig

\* (variant: one API key for both functions: the key of the edited
\* configuration is copied into the other one)
onChangeSharedKey(side, cfg) ==
  /\ transcriptionConfig' = IF side = "transcription" THEN cfg
                            ELSE Spread(transcriptionConfig, "apiKey", Get(cfg, "apiKey"))
  /\ polishingConfig' = IF side = "polishing" THEN cfg
                        ELSE Spread(polishingConfig, "apiKey", Get(cfg, "apiKey"))
  /\ lastOp' = "panel"
  /\ UNCHANGED << recVars, polishVars, textVars, settingsVars, apiVars,
                  showLLMConfig, localStorage, atSave >>

\* onChange of a ConfigSection: onTranscriptionConfigChange / onPolishingConfigChange
onChange(side, cfg) ==
  /\ transcriptionConfig' = IF side = "transcription" THEN cfg ELSE transcriptionConfig
  /\ polishingConfig' = IF side = "polishing" THEN cfg ELSE polishingConfig
  /\ lastOp' = "panel"
  /\ UNCHANGED << recVars, polishVars, textVars, settingsVars, apiVars,
                  showLLMConfig, localStorage, atSave >>

SelectProvider(side, value) ==
  /\ showLLMConfig
  /\ onChange(side, Spread(Spread(Spread(Spread(ConfigOf(side), "provider", value),
                                         "model", ""), "baseURL", ""), "apiVersion", UNDEF))

EditModel(side, value) ==
  /\ showLLMConfig
  /\ onChange(side, Spread(ConfigOf(side), "model", value))

EditApiKey(side, value) ==
  /\ showLLMConfig
  /\ onChange(side, Spread(ConfigOf(side), "apiKey", value))

EditBaseURL(side, value) ==
  /\ showLLMConfig
  /\ "baseURL" \in getExtraForProvider(Get(ConfigOf(side), "provider"))
  /\ onChange(side, Spread(ConfigOf(side), "baseURL", value))

EditApiVersion(side, value) ==
  /\ showLLMConfig
  /\ "apiVersion" \in getExtraForProvider(Get(ConfigOf(side), "provider"))
  /\ onChange(side, Spread(ConfigOf(side), "apiVersion", value))

\* The two setItem calls of a successful Save.
SaveWrites(st, t, p) == setItem(setItem(st, TKey, JSONstringify(t)), PKey, JSONstringify(p))

\* (variant: the transcription key is written as soon as the transcription
\* configuration has passed, before the polishing configuration is validated)
handleSaveEager ==
  /\ showLLMConfig
  /\ LET tErr == validateConfig(transcriptionConfig, "Transcription")
         pErr == validateConfig(polishingConfig, "Polishing")
     IN  IF tErr # ""
           THEN /\ lastOp' = "save-rejected-transcription"
                /\ UNCHANGED << showLLMConfig, localStorage, atSave >>
         ELSE IF pErr # ""
           THEN /\ localStorage' = setItem(localStorage, TKey, JSONstringify(transcriptionConfig))
                /\ lastOp' = "save-rejected-polishing"
                /\ UNCHANGED << showLLMConfig, atSave >>
         ELSE /\ localStorage' = SaveWrites(localStorage, transcriptionConfig, polishingConfig)
              /\ atSave' = [saved |-> TRUE, t |-> transcriptionConfig, p |-> polishingConfig]
              /\ showLLMConfig' = FALSE
              /\ lastOp' = "saved"
  /\ UNCHANGED << recVars, polishVars, textVars, settingsVars, cfgVars, apiVars >>

handleSave ==
  /\ showLLMConfig
  /\ LET tErr == validateConfig(transcriptionConfig, "Transcription")
         pErr == validateConfig(polishingConfig, "Polishing")
     IN  IF tErr # ""
           THEN /\ lastOp' = "save-rejected-transcription"
                /\ UNCHANGED << showLLMConfig, localStorage, atSave >>
         ELSE IF pErr # ""
           THEN /\ lastOp' = "save-rejected-polishing"
                /\ UNCHANGED << showLLMConfig, localStorage, atSave >>
         ELSE /\ localStorage' = SaveWrites(localStorage, transcriptionConfig, polishingConfig)
              /\ atSave' = [saved |-> TRUE, t |-> transcriptionConfig, p |-> polishingConfig]
              /\ showLLMConfig' = FALSE
              /\ lastOp' = "saved"
  /\ UNCHANGED << recVars, polishVars, textVars, settingsVars, cfgVars, apiVars >>

\* The earlier revision of the panel: every field of both configurations
\* must be non-empty.
LegacyComplete(cfg) ==
  Truthy(Get(cfg, "provider")) /\ Truthy(Get(cfg, "model")) /\ Truthy(Get(cfg, "apiKey"))

legacyHandleSave ==
  /\ showLLMConfig
  /\ IF ~LegacyComplete(transcriptionConfig)
       THEN /\ lastOp' = "save-rejected-transcription"
            /\ UNCHANGED << showLLMConfig, localStorage, atSave >>
     ELSE IF ~LegacyComplete(polishingConfig)
       THEN /\ lastOp' = "save-rejected-polishing"
            /\ UNCHANGED << showLLMConfig, localStorage, atSave >>
     ELSE /\ localStorage' = SaveWrites(localStorage, transcriptionConfig, polishingConfig)
          /\ atSave' = [saved |-> TRUE, t |-> transcriptionConfig, p |-> polishingConfig]
          /\ showLLMConfig' = FALSE
          /\ lastOp' = "saved"
  /\ UNCHANGED << recVars, polishVars, textVars, settingsVars, cfgVars, apiVars >>

\* The configuration a mount leaves in memory for a storage key.
LoadConfig(st, key) == IF HasItem(st, key) THEN JSONparse(st[key]) ELSE DefaultConfig

\* Page (re)load: the component is constructed afresh, then the mount effect
\* reads the two keys.
Mount ==
  /\ isRecording' = FALSE /\ transcriptionMode' = "llm"
  /\ rawTranscript' = "" /\ polishedTranscript' = ""
  /\ isPolishing' = FALSE /\ isTranscribing' = FALSE /\ showLLMConfig' = FALSE
  /\ systemPrompt' = DEFAULT_PROMPT /\ examples' = << >>
  /\ recognition' = (IF recognition.state = "unsupported" THEN NoRecognition ELSE IdleRecognition)
  /\ micPending' = << >>
  /\ recorders' = << >> /\ mediaRecorderRef' = 0
  /\ transcribeInFlight' = << >> /\ polishInFlight' = << >>
  /\ transcriptionConfig' = LoadConfig(localStorage, TKey)
  /\ polishingConfig' = LoadConfig(localStorage, PKey)
  /\ lastOp' = "mount"
  /\ UNCHANGED << localStorage, atSave, apiVars >>

----------------------------------------------------------------------------
(* Settings panel (SystemPromptEditor) and the two text areas *)

onTranscriptionModeChange(mode) ==
  /\ transcriptionMode' = mode
  /\ lastOp' = "page"
  /\ UNCHANGED << recVars, polishVars, textVars, systemPrompt, examples, cfgVars, apiVars,
                  showLLMConfig, localStorage, atSave >>

onSystemPromptChange(prompt) ==
  /\ systemPrompt' = prompt
  /\ lastOp' = "page"
  /\ UNCHANGED << recVars, polishVars, textVars, transcriptionMode, examples, cfgVars,
                  apiVars, showLLMConfig, localStorage, atSave >>

onExamplesChange(exs) ==
  /\ examples' = exs
  /\ lastOp' = "page"
  /\ UNCHANGED << recVars, polishVars, textVars, transcriptionMode, systemPrompt, cfgVars,
                  apiVars, showLLMConfig, localStorage, atSave >>

addExample ==
  /\ Len(examples) < MaxExamples
  /\ onExamplesChange(Append(examples, [input |-> "", output |-> ""]))

updateExample(index, field, value) ==
  /\ index \in 1..Len(examples)
  /\ onExamplesChange([examples EXCEPT ![index] = Spread(examples[index], field, value)])

removeExample(index) ==
  /\ index \in 1..Len(examples)
  /\ onExamplesChange(SubSeq(examples, 1, index - 1) \o SubSeq(examples, index + 1, Len(examples)))

onRawChange(value) ==
  /\ rawTranscript' = value
  /\ lastOp' = "page"
  /\ UNCHANGED << recVars, polishVars, polishedTranscript, settingsVars, cfgVars, apiVars,
                  showLLMConfig, localStorage, atSave >>

onPolishedChange(value) ==
  /\ polishedTranscript' = value
  /\ lastOp' = "page"
  /\ UNCHANGED << recVars, polishVars, rawTranscript, settingsVars, cfgVars, apiVars,
                  showLLMConfig, localStorage, atSave >>

clearAll ==
  /\ rawTranscript' = "" /\ polishedTranscript' = ""
  /\ lastOp' = "page"
  /\ UNCHANGED << recVars, polishVars, settingsVars, cfgVars, apiVars,
                  showLLMConfig, localStorage, atSave >>

----------------------------------------------------------------------------
(* Recording *)

\* s.trim() over the texts of the model
Trim(s) == IF s = " " THEN "" ELSE s

\* (prev ? prev + " " : "") + final.trim(), over the texts of the model
Joinable == {"", Spoken}
Join(prev, final) ==
  CASE prev = ""      -> final
    [] prev = Spoken  -> "spoken spoken"

RecorderIn(state, mode) == [state |-> state, startedIn |-> mode]
Recording(rs) == {i \in 1..Len(rs) : rs[i].state = "recording"}

\* Captures taking audio from the microphone right now.
ActiveCaptures ==
  Cardinality(Recording(recorders)) + (IF recognition.state = "listening" THEN 1 ELSE 0)

\* (variant: without a recogniser the browser branch falls through to the
\* MediaRecorder path)
startRecordingFallsThrough ==
  IF isRecording
    THEN /\ lastOp' = "page"
         /\ UNCHANGED recVars
  ELSE IF transcriptionMode = "browser" /\ recognition.state # "unsupported"
    THEN /\ isRecording' = TRUE
         /\ recognition' = IF recognition.state = "idle"
                             THEN [state |-> "listening", startedIn |-> transcriptionMode]
                             ELSE recognition
         /\ lastOp' = "page"
         /\ UNCHANGED << micPending, recorders, mediaRecorderRef, transcribeInFlight,
                         isTranscribing >>
  ELSE IF Falsy(Get(transcriptionConfig, "apiKey"))
    THEN /\ lastOp' = "page"
         /\ UNCHANGED recVars
  ELSE /\ micPending' = Append(micPending, transcriptionMode)
       /\ lastOp' = "page"
       /\ UNCHANGED << isRecording, recognition, recorders, mediaRecorderRef,
                       transcribeInFlight, isTranscribing >>

\* startRecording, up to its await or return.
startRecording ==
  IF isRecording
    THEN /\ lastOp' = "page"
         /\ UNCHANGED recVars
  ELSE IF transcriptionMode = "browser" /\ recognition.state = "unsupported"
    THEN /\ lastOp' = "page"
         /\ UNCHANGED recVars
  ELSE IF transcriptionMode = "browser"
    THEN \* recognition.start() throws when the recogniser has not ended yet;
         \* setIsRecording(true) has been queued before it
         /\ isRecording' = TRUE
         /\ recognition' = IF recognition.state = "idle"
                             THEN [state |-> "listening", startedIn |-> transcriptionMode]
                             ELSE recognition
         /\ lastOp' = "page"
         /\ UNCHANGED << micPending, recorders, mediaRecorderRef, transcribeInFlight,
                         isTranscribing >>
  ELSE IF Falsy(Get(transcriptionConfig, "apiKey"))
    THEN /\ lastOp' = "page"
         /\ UNCHANGED recVars
  ELSE /\ micPending' = Append(micPending, transcriptionMode)
       /\ lastOp' = "page"
       /\ UNCHANGED << isRecording, recognition, recorders, mediaRecorderRef,
                       transcribeInFlight, isTranscribing >>

\* stopRecording.  MediaRecorder.stop() on an inactive recorder either returns
\* or throws InvalidStateError, depending on the browser; when it throws the
\* handler ends before setIsRecording(false).
stopRecording ==
  IF ~isRecording
    THEN /\ lastOp' = "page"
         /\ UNCHANGED recVars
  ELSE IF transcriptionMode = "browser"
    THEN /\ recognition' = IF recognition.state = "listening"
                             THEN [recognition EXCEPT !.state = "stopping"]
                             ELSE recognition
         /\ isRecording' = FALSE
         /\ lastOp' = "page"
         /\ UNCHANGED << micPending, recorders, mediaRecorderRef, transcribeInFlight,
                         isTranscribing >>
  ELSE IF mediaRecorderRef # 0 /\ recorders[mediaRecorderRef].state = "recording"
    THEN /\ recorders' = [recorders EXCEPT ![mediaRecorderRef].state = "stopping"]
         /\ isRecording' = FALSE
         /\ lastOp' = "page"
         /\ UNCHANGED << recognition, micPending, mediaRecorderRef, transcribeInFlight,
                         isTranscribing >>
  ELSE IF mediaRecorderRef # 0
    THEN /\ \/ isRecording' = FALSE /\ lastOp' = "page"
            \/ isRecording' = isRecording /\ lastOp' = "page"
         /\ UNCHANGED << recognition, micPending, recorders, mediaRecorderRef,
                         transcribeInFlight, isTranscribing >>
  ELSE /\ isRecording' = FALSE
       /\ lastOp' = "page"
       /\ UNCHANGED << recognition, micPending, recorders, mediaRecorderRef,
                       transcribeInFlight, isTranscribing >>

pageFrame == << polishVars, textVars, settingsVars, cfgVars, apiVars,
                showLLMConfig, localStorage, atSave >>

\* Record/Stop button, and the "r" key: isRecording ? stopRecording() : startRecording()
RecordButton ==
  /\ IF isRecording THEN stopRecording ELSE startRecording
  /\ UNCHANGED pageFrame

\* Escape key
EscapeKey ==
  /\ stopRecording
  /\ UNCHANGED pageFrame

\* getUserMedia resolves: the rest of startRecording's try block.
MicrophoneGranted ==
  /\ Len(micPending) > 0
  /\ micPending' = Tail(micPending)
  /\ recorders' = Append(recorders, RecorderIn("recording", Head(micPending)))
  /\ mediaRecorderRef' = Len(recorders) + 1
  /\ isRecording' = TRUE
  /\ lastOp' = "page"
  /\ UNCHANGED << recognition, transcribeInFlight, isTranscribing, pageFrame >>

\* getUserMedia rejects: the catch block.
MicrophoneDenied ==
  /\ Len(micPending) > 0
  /\ micPending' = Tail(micPending)
  /\ lastOp' = "page"
  /\ UNCHANGED << isRecording, recognition, recorders, mediaRecorderRef,
                  transcribeInFlight, isTranscribing, pageFrame >>

\* recognition.onresult with a non-empty final transcript
onresult ==
  /\ recognition.state \in {"listening", "stopping"}
  /\ rawTranscript \in Joinable
  /\ rawTranscript' = Join(rawTranscript, Spoken)
  /\ lastOp' = "page"
  /\ UNCHANGED << recVars, polishVars, polishedTranscript, settingsVars, cfgVars, apiVars,
                  showLLMConfig, localStorage, atSave >>

\* recognition.onerror; the recogniser then ends
onerror ==
  /\ recognition.state = "listening"
  /\ recognition' = [recognition EXCEPT !.state = "stopping"]
  /\ isRecording' = FALSE
  /\ lastOp' = "page"
  /\ UNCHANGED << micPending, recorders, mediaRecorderRef, transcribeInFlight,
                  isTranscribing, pageFrame >>

\* recognition.onend
onend ==
  /\ recognition.state \in {"listening", "stopping"}
  /\ recognition' = IdleRecognition
  /\ isRecording' = FALSE
  /\ lastOp' = "page"
  /\ UNCHANGED << micPending, recorders, mediaRecorderRef, transcribeInFlight,
                  isTranscribing, pageFrame >>

TRANSCRIPTION_PROMPT == "Transcribe this audio recording accurately. Provide only the transcription without any additional commentary."

\* The multipart body transcribeWithLLM sends; a field that is not appended
\* reads as null on the server.
TranscribeRequest(audio, cfg, prompt) ==
  [audio |-> audio,
   provider |-> Get(cfg, "provider"),
   model |-> Get(cfg, "model"),
   apiKey |-> Or(Get(cfg, "apiKey"), ""),
   baseURL |-> IF Truthy(Get(cfg, "baseURL")) THEN Get(cfg, "baseURL") ELSE NULL,
   apiVersion |-> IF Truthy(Get(cfg, "apiVersion")) THEN Get(cfg, "apiVersion") ELSE NULL,
   systemPrompt |-> prompt]

\* MediaRecorder.onstop of recorder i: the chunks become one blob (empty when
\* no data arrived) and transcribeWithLLM runs up to its fetch.  The handler
\* reads the configuration of the render that started the recorder; the
\* configuration does not change while a page life records.
onstop(i, audio) ==
  /\ i \in 1..Len(recorders)
  /\ recorders[i].state = "stopping"
  /\ recorders' = [recorders EXCEPT ![i].state = "inactive"]
  /\ isTranscribing' = TRUE
  /\ transcribeInFlight' =
       Append(transcribeInFlight,
              [req |-> TranscribeRequest(audio, transcriptionConfig, TRANSCRIPTION_PROMPT),
               startedIn |-> recorders[i].startedIn])
  /\ lastOp' = "page"
  /\ UNCHANGED << isRecording, recognition, micPending, mediaRecorderRef, pageFrame >>

RemoveAt(q, i) == SubSeq(q, 1, i - 1) \o SubSeq(q, i + 1, Len(q))

\* (variant: the transcription is also put into the polished text area)
TranscribeSettledIntoBoth(i, net) ==
  /\ i \in 1..Len(transcribeInFlight)
  /\ LET res == TranscribePOST(transcribeInFlight[i].req, net)
     IN  IF res.status = 200
           THEN /\ rawTranscript' = Or(res.value, "")
                /\ polishedTranscript' = Or(res.value, "")
           ELSE /\ rawTranscript' = rawTranscript
                /\ polishedTranscript' = polishedTranscript
  /\ lastOp' = "page"
  /\ transcribeInFlight' = RemoveAt(transcribeInFlight, i)
  /\ isTranscribing' = FALSE
  /\ UNCHANGED << isRecording, recognition, micPending, recorders, mediaRecorderRef,
                  polishVars, settingsVars, cfgVars, apiVars,
                  showLLMConfig, localStorage, atSave >>

\* The response of /api/transcribe to request i arrives: the rest of
\* transcribeWithLLM (try, catch, finally).
TranscribeSettled(i, net) ==
  /\ i \in 1..Len(transcribeInFlight)
  /\ LET res == TranscribePOST(transcribeInFlight[i].req, net)
     IN  IF res.status = 200
           THEN rawTranscript' = Or(res.value, "")
           ELSE rawTranscript' = rawTranscript
  /\ lastOp' = "page"
  /\ transcribeInFlight' = RemoveAt(transcribeInFlight, i)
  /\ isTranscribing' = FALSE
  /\ UNCHANGED << isRecording, recognition, micPending, recorders, mediaRecorderRef,
                  polishVars, polishedTranscript, settingsVars, cfgVars, apiVars,
                  showLLMConfig, localStorage, atSave >>

----------------------------------------------------------------------------
(* Polishing *)

\* The JSON body polishTranscript sends.
PolishRequest(transcript, prompt, exs, cfg) ==
  [transcript |-> transcript, systemPrompt |-> prompt, examples |-> exs,
   provider |-> Get(cfg, "provider"), model |-> Get(cfg, "model"),
   apiKey |-> Get(cfg, "apiKey"), baseURL |-> Get(cfg, "baseURL"),
   apiVersion |-> Get(cfg, "apiVersion")]

\* polishTranscript, up to its await or return.
polishTranscript ==
  IF Falsy(Trim(rawTranscript))
    THEN /\ lastOp' = "page"
         /\ UNCHANGED polishVars
    ELSE /\ isPolishing' = TRUE
         /\ polishInFlight' =
              Append(polishInFlight,
                     PolishRequest(rawTranscript, systemPrompt, examples, polishingConfig))
         /\ lastOp' = "page"

polishFrame == << recVars, textVars, settingsVars, cfgVars, apiVars,
                  showLLMConfig, localStorage, atSave >>

\* Polish button: disabled={!rawTranscript.trim() || isPolishing}
PolishButton ==
  /\ Truthy(Trim(rawTranscript)) /\ ~isPolishing
  /\ polishTranscript
  /\ UNCHANGED polishFrame

\* Ctrl/Cmd+Enter
PolishShortcut ==
  /\ polishTranscript
  /\ UNCHANGED polishFrame

\* The response of /api/polish to request i arrives: the rest of
\* polishTranscript (try, catch, finally).
PolishSettled(i, net) ==
  /\ i \in 1..Len(polishInFlight)
  /\ LET res == PolishPOST(polishInFlight[i], net)
     IN  /\ polishCall' = [req |-> polishInFlight[i], res |-> res, route |-> "polish",
                           net |-> net]
         /\ IF res.status = 200
              THEN polishedTranscript' = Or(res.value, "")
              ELSE polishedTranscript' = polishedTranscript
  /\ lastOp' = "page"
  /\ polishInFlight' = RemoveAt(polishInFlight, i)
  /\ isPolishing' = FALSE
  /\ UNCHANGED << recVars, rawTranscript, settingsVars, cfgVars, transcribeCall,
                  showLLMConfig, localStorage, atSave >>

----------------------------------------------------------------------------
(* The configuration panel and local storage across page loads *)

InitCfg ==
  /\ PageInit /\ recognition = IdleRecognition
  /\ transcriptionConfig = DefaultConfig /\ polishingConfig = DefaultConfig
  /\ localStorage = EmptyStorage /\ atSave = NoSave
  /\ lastOp = "mount"
  /\ polishCall = NoCall /\ transcribeCall = NoCall

NextCfg ==
  \/ OpenLLMConfig
  \/ CloseLLMConfig
  \/ \E side \in Sides : \E v \in ProviderChoices(side) : SelectProvider(side, v)
  \/ \E side \in Sides, v \in ModelChoices : EditModel(side, v)
  \/ \E side \in Sides, v \in KeyChoices : EditApiKey(side, v)
  \/ \E side \in Sides, v \in URLChoices : EditBaseURL(side, v)
  \/ \E side \in Sides, v \in VersionChoices : EditApiVersion(side, v)
  \/ handleSave
  \/ legacyHandleSave
  \/ Mount

SpecCfg == InitCfg /\ [][NextCfg]_vars

----------------------------------------------------------------------------
(* What reaches local storage: every operation of the page that edits text, *)
(* settings or keys, with Save and reload                                   *)

NextStore ==
  \/ OpenLLMConfig
  \/ CloseLLMConfig
  \/ \E side \in Sides, v \in KeyChoices : EditApiKey(side, v)
  \/ handleSave
  \/ legacyHandleSave
  \/ Mount
  \/ \E m \in {"browser", "llm"} : onTranscriptionModeChange(m)
  \/ \E v \in PromptChoices : onSystemPromptChange(v)
  \/ addExample
  \/ \E i \in 1..MaxExamples, f \in {"input", "output"}, v \in ExampleTexts : updateExample(i, f, v)
  \/ \E i \in 1..MaxExamples : removeExample(i)
  \/ \E v \in RawChoices : onRawChange(v)
  \/ \E v \in PolishedChoices : onPolishedChange(v)
  \/ clearAll

SpecStore == InitCfg /\ [][NextStore]_vars

----------------------------------------------------------------------------
(* The page: recording sessions, transcription and polishing *)

OpenAIWithKey == Spread(Spread(DefaultConfig, "apiKey", "sk-1"), "apiVersion", UNDEF)
LocalNoKey ==
  [provider |-> "openai-compatible", model |-> "gpt-4o", apiKey |-> "",
   baseURL |-> "http://localhost:11434/v1", apiVersion |-> UNDEF]

\* Pairs of configurations an earlier visit saved (each passes handleSave).
StoredPairs == { << OpenAIWithKey, OpenAIWithKey >>, << LocalNoKey, OpenAIWithKey >> }

\* The page after its mount effect, over what local storage may hold.
InitRec ==
  /\ PageInit
  /\ \/ localStorage = EmptyStorage /\ atSave = NoSave
     \/ \E pair \in StoredPairs :
          /\ validateConfig(pair[1], "Transcription") = ""
          /\ validateConfig(pair[2], "Polishing") = ""
          /\ localStorage = SaveWrites(EmptyStorage, pair[1], pair[2])
          /\ atSave = [saved |-> TRUE, t |-> pair[1], p |-> pair[2]]
  /\ transcriptionConfig = LoadConfig(localStorage, TKey)
  /\ polishingConfig = LoadConfig(localStorage, PKey)
  /\ lastOp = "mount"
  /\ polishCall = NoCall /\ transcribeCall = NoCall

AudioBlobs == {"file:0-bytes", "file:webm"}

\* Room, within bounds, for setting up n captures / sending n polish requests.
RoomToRecord(n) == Len(micPending) + Len(recorders) < n
RoomToPolish(n) == Len(polishInFlight) < n

\* Recording sessions and transcription.
NextRec ==
  \/ (RoomToRecord(MaxRecorders) /\ RecordButton)
  \/ EscapeKey
  \/ MicrophoneGranted
  \/ MicrophoneDenied
  \/ onresult
  \/ onerror
  \/ onend
  \/ \E i \in 1..MaxRecorders, a \in AudioBlobs : onstop(i, a)
  \/ \E i \in 1..MaxRecorders, net \in NetOutcomes : TranscribeSettled(i, net)
  \/ \E m \in {"browser", "llm"} : onTranscriptionModeChange(m)
  \/ onRawChange("typed")
  \/ clearAll
  \/ Mount

SpecRec == InitRec /\ [][NextRec]_vars

\* Polishing: texts, prompt and polish requests.
NextPolish ==
  \/ \E v \in RawChoices : onRawChange(v)
  \/ \E v \in PolishedChoices : onPolishedChange(v)
  \/ clearAll
  \/ (RoomToPolish(MaxPolishInFlight) /\ PolishButton)
  \/ (RoomToPolish(MaxPolishInFlight) /\ PolishShortcut)
  \/ \E i \in 1..MaxPolishInFlight, net \in NetOutcomes : PolishSettled(i, net)
  \/ \E v \in {DEFAULT_PROMPT, ""} : onSystemPromptChange(v)
  \/ Mount

SpecPolish == InitRec /\ [][NextPolish]_vars

\* Recording and polishing together.
NextPage ==
  \/ (RoomToRecord(MaxPageRecorders) /\ RecordButton)
  \/ EscapeKey
  \/ MicrophoneGranted
  \/ MicrophoneDenied
  \/ onresult
  \/ onerror
  \/ onend
  \/ \E i \in 1..MaxPageRecorders, a \in AudioBlobs : onstop(i, a)
  \/ \E i \in 1..MaxPageRecorders, net \in NetOutcomes : TranscribeSettled(i, net)
  \/ \E m \in {"browser", "llm"} : onTranscriptionModeChange(m)
  \/ (RoomToPolish(MaxPagePolish) /\ PolishButton)
  \/ (RoomToPolish(MaxPagePolish) /\ PolishShortcut)
  \/ \E i \in 1..MaxPagePolish, net \in NetOutcomes : PolishSettled(i, net)
  \/ \E v \in PolishedChoices : onPolishedChange(v)
  \/ clearAll
  \/ Mount

SpecPage == InitRec /\ [][NextPage]_vars

----------------------------------------------------------------------------
(* The two routes as HTTP endpoints: any client may send any request *)

AllProviders == {"openai", "azure-openai", "anthropic", "google", "mistral", "openai-compatible"}

ApiExamples == {[input |-> "um hello", output |-> "Hello."],
                [input |-> "so yeah", output |-> "Yes."]}
MaxApiExamples == 2
SeqsUpTo(S, n) == UNION {[1..k -> S] : k \in 0..n}

PolishRequests ==
  [transcript : {UNDEF, "", "typed"},
   systemPrompt : {UNDEF, "", DEFAULT_PROMPT},
   examples : SeqsUpTo(ApiExamples, MaxApiExamples),
   provider : AllProviders \cup {UNDEF, "bogus"},
   model : {UNDEF, "gpt-4o"},
   apiKey : {UNDEF, "", "sk-1"},
   baseURL : {UNDEF, "http://localhost:11434/v1"},
   apiVersion : {UNDEF, "preview"}]

TranscribeRequests ==
  [audio : AudioValues,
   provider : AllProviders \cup {NULL, "", "bogus"},
   model : {NULL, "", "gpt-4o"},
   apiKey : {NULL, "", "sk-1"},
   baseURL : {NULL, "http://localhost:11434/v1"},
   apiVersion : {NULL, "preview"},
   systemPrompt : {NULL, TRANSCRIPTION_PROMPT}]

InitApi ==
  /\ InitCfg

ApiFrame == << recVars, polishVars, textVars, settingsVars, cfgVars,
               showLLMConfig, localStorage, atSave >>

\* A request arrives while no other is being looked at; the handler runs to
\* its response.  The routes keep nothing between requests.
ApiIdle == polishCall = NoCall /\ transcribeCall = NoCall

ApiPolish(req, net) ==
  /\ ApiIdle
  /\ polishCall' = [req |-> req, res |-> PolishPOST(req, net), route |-> "polish", net |-> net]
  /\ lastOp' = "api"
  /\ UNCHANGED << transcribeCall, ApiFrame >>

ApiTranscribe(req, net) ==
  /\ ApiIdle
  /\ transcribeCall' = [req |-> req, res |-> TranscribePOST(req, net),
                        route |-> "transcribe", net |-> net]
  /\ lastOp' = "api"
  /\ UNCHANGED << polishCall, ApiFrame >>

ApiLegacyTranscribe(req, net) ==
  /\ ApiIdle
  /\ transcribeCall' = [req |-> req, res |-> LegacyTranscribePOST(req, net),
                        route |-> "legacy-transcribe", net |-> net]
  /\ lastOp' = "api"
  /\ UNCHANGED << polishCall, ApiFrame >>

\* The response has been sent.
ApiDone ==
  /\ ~ApiIdle
  /\ polishCall' = NoCall /\ transcribeCall' = NoCall
  /\ lastOp' = "api"
  /\ UNCHANGED ApiFrame

NextApi ==
  \/ ApiDone
  \/ (ApiIdle /\ \E req \in PolishRequests, net \in NetOutcomes : ApiPolish(req, net))
  \/ (ApiIdle /\ \E req \in TranscribeRequests, net \in NetOutcomes : ApiTranscribe(req, net))
  \/ (ApiIdle /\ \E req \in TranscribeRequests, net \in NetOutcomes : ApiLegacyTranscribe(req, net))

SpecApi == InitApi /\ [][NextApi]_vars

----------------------------------------------------------------------------
(* Properties of the routes *)

PolishHandled == polishCall.route = "polish"
TranscribeHandled == transcribeCall.route \in {"transcribe", "legacy-transcribe"}

\* C6 (as stated): validation precedes any remote call.  /api/polish answers
\* 400 when transcript or systemPrompt is missing or empty; /api/transcribe
\* answers 400 when the audio file, provider or model is missing or empty (an
\* empty audio file being a file of zero bytes, or an empty field); in each
\* case no request goes to an AI provider.
AudioMissingOrEmpty(a) == a \in {NULL, "", "file:0-bytes"}
C6_ValidationFirst ==
  /\ PolishHandled =>
       LET req == polishCall.req  res == polishCall.res
       IN  (Falsy(req.transcript) \/ Falsy(req.systemPrompt))
             => (res.status = 400 /\ res.calls = << >>)
  /\ TranscribeHandled =>
       LET req == transcribeCall.req  res == transcribeCall.res
       IN  (AudioMissingOrEmpty(req.audio) \/ Falsy(req.provider) \/ Falsy(req.model))
             => (res.status = 400 /\ res.calls = << >>)

\* C6 (amended): the same, where for the audio only an absent field or an
\* empty-string field is rejected; a zero-byte audio file passes validation.
C6_ValidationFirstAmended ==
  /\ PolishHandled =>
       LET req == polishCall.req  res == polishCall.res
       IN  (Falsy(req.transcript) \/ Falsy(req.systemPrompt))
             => (res.status = 400 /\ res.calls = << >>)
  /\ TranscribeHandled =>
       LET req == transcribeCall.req  res == transcribeCall.res
       IN  (req.audio \in {NULL, ""} \/ Falsy(req.provider) \/ Falsy(req.model))
             => (res.status = 400 /\ res.calls = << >>)

\* C6 witness: a transcribe request without a model was answered 400.
C6_Witness ==
  /\ transcribeCall.route = "transcribe"
  /\ transcribeCall.req.audio = "file:webm" /\ transcribeCall.req.provider = "openai"
  /\ transcribeCall.req.model = "" /\ transcribeCall.req.apiKey = "sk-1"
  /\ transcribeCall.res.status = 400

\* The SDK factory each recognised provider string names.
SdkOf(provider) == IF provider = "azure-openai" THEN "azure" ELSE provider

\* An option of the adapter carries the request's value (a falsy request
\* value may be passed on as it is or left out).
Carries(option, value) == option = value \/ (Falsy(value) /\ Falsy(option))

AdapterMatches(ad, provider, model, apiKey, baseURL) ==
  /\ ad.sdk = SdkOf(provider)
  /\ ad.model = model
  /\ Carries(ad.apiKey, apiKey)
  /\ provider \in {"azure-openai", "openai-compatible"} => Carries(ad.baseURL, baseURL)

\* C7: for each recognised provider string, the polish and transcribe routes
\* build the adapter of exactly that provider, with the model, the API key and
\* (azure-openai, openai-compatible) the base URL of the request; a request that
\* names a recognised provider and carries a key and a base URL always gets
\* its adapter, and no route builds more than one adapter.
C7_AdapterByProvider ==
  /\ PolishHandled =>
       LET req == polishCall.req  res == polishCall.res
           provider == Default(req.provider, "openai")
       IN  (provider \in AllProviders /\ ~PolishMissing(req)) =>
             /\ Len(res.adapters) <= 1
             /\ \A i \in 1..Len(res.adapters) :
                  AdapterMatches(res.adapters[i], provider,
                                 Default(req.model, "gpt-4o-mini"), req.apiKey, req.baseURL)
             /\ (Truthy(req.apiKey) /\ Truthy(req.baseURL)) => Len(res.adapters) = 1
  /\ transcribeCall.route = "transcribe" =>
       LET req == transcribeCall.req  res == transcribeCall.res
       IN  (req.provider \in AllProviders /\ ~TranscribeMissing(req) /\ IsFile(req.audio)) =>
             /\ Len(res.adapters) <= 1
             /\ \A i \in 1..Len(res.adapters) :
                  AdapterMatches(res.adapters[i], req.provider, req.model,
                                 req.apiKey, req.baseURL)
             /\ (Truthy(req.apiKey) /\ Truthy(req.baseURL)) => Len(res.adapters) = 1

\* C7 witness: a polish request naming mistral was served through the mistral adapter.
C7_Witness ==
  /\ PolishHandled
  /\ polishCall.req.provider = "mistral" /\ polishCall.req.apiKey = "sk-1"
  /\ polishCall.res.status = 200
  /\ Len(polishCall.res.adapters) = 1
  /\ polishCall.res.adapters[1].sdk = "mistral"

\* C8: the polish prompt is, in this order, the system prompt, a blank line,
\* then (only with a non-empty examples list) the introductory line, every
\* example in input order numbered from 1, and the line announcing the
\* transcript, and last the transcript; with no examples it is exactly the
\* system prompt, a blank line and the transcript.
C8_PromptLayout ==
  (PolishHandled /\ polishCall.res.status # 400) =>
    LET p == polishCall.res.prompt
        exs == polishCall.req.examples
        n == Len(exs)
    IN  /\ Len(p) >= 3
        /\ p[1] = [t |-> "text", k |-> 0, a |-> polishCall.req.systemPrompt, b |-> ""]
        /\ p[2] = BLANK
        /\ p[Len(p)] = [t |-> "text", k |-> 0, a |-> polishCall.req.transcript, b |-> ""]
        /\ n = 0 => Len(p) = 3
        /\ n > 0 =>
             /\ Len(p) = n + 5
             /\ p[3] = INTRO
             /\ \A k \in 1..n :
                  p[3 + k] = [t |-> "example", k |-> k, a |-> exs[k].input, b |-> exs[k].output]
             /\ p[n + 4] = ANNOUNCE

\* C8 witness: a prompt was built from two different examples and sent.
C8_Witness ==
  /\ PolishHandled /\ polishCall.res.status = 200
  /\ Len(polishCall.req.examples) = 2
  /\ polishCall.req.examples[1] # polishCall.req.examples[2]
  /\ Len(polishCall.res.calls) = 1

----------------------------------------------------------------------------
(* Properties of polishing *)

\* The route made its remote text-generation call and the call failed.
RemoteCallFailed(call) ==
  call.route = "polish" /\ Len(call.res.calls) > 0 /\ ~call.net.ok

\* C1 (as stated): when the remote call of a polish request fails, the polish
\* operation still produces polished text derived from the transcript.
C1_FallbackOnFailure ==
  RemoteCallFailed(polishCall) =>
    /\ polishCall.res.status = 200
    /\ polishCall.res.field = "polishedText"
    /\ Truthy(polishCall.res.value)

\* The page's handling of a response whose remote call failed leaves the
\* polished transcript as it was.
C1_PageKeepsPolished ==
  \A i \in 1..MaxPolishInFlight, net \in NetOutcomes :
    (PolishSettled(i, net) /\ ~net.ok /\ Len(polishCall'.res.calls) > 0)
      => polishedTranscript' = polishedTranscript

\* C1 (amended): when the remote call of a polish request fails, the route
\* answers 500 "Failed to polish transcript" with no polished text, and the
\* page leaves the polished transcript unchanged; there is no local cleanup.
C1_FailureIsReported ==
  /\ [](RemoteCallFailed(polishCall) =>
          /\ polishCall.res.status = 500
          /\ polishCall.res.field = "error"
          /\ polishCall.res.error = "Failed to polish transcript"
          /\ polishCall.res.value = "")
  /\ [][C1_PageKeepsPolished]_vars

\* C1 witness: a polish request failed remotely after the user had text in the
\* polished area, and the page is back to idle with that text.
C1_Witness ==
  /\ RemoteCallFailed(polishCall)
  /\ lastOp = "page" /\ ~isPolishing /\ polishInFlight = << >>
  /\ polishedTranscript = "edited"
  /\ rawTranscript = "typed"

----------------------------------------------------------------------------
(* Properties of recording *)

\* C2: there is a single recording session at a time: at most one capture
\* (MediaRecorder or recogniser) is active, counting the captures still being
\* set up (microphone permission pending).
C2_SingleSession ==
  ActiveCaptures + Len(micPending) <= 1

\* Two MediaRecorders take audio at the same time.
C2_TwoRecorders ==
  Cardinality(Recording(recorders)) = 2

\* C3: each session uses the path of the mode it was started in: every
\* MediaRecorder (pending, open or closed) and every audio upload belongs to
\* a session started in LLM mode, and the recogniser only runs for a session
\* started in browser mode.
C3_OnePathPerMode ==
  /\ \A i \in 1..Len(micPending) : micPending[i] = "llm"
  /\ \A i \in 1..Len(recorders) : recorders[i].startedIn = "llm"
  /\ \A i \in 1..Len(transcribeInFlight) : transcribeInFlight[i].startedIn = "llm"
  /\ recognition.state \in {"listening", "stopping"} => recognition.startedIn = "browser"

\* C3 witness: the audio of an LLM-mode session is on its way to
\* /api/transcribe while a browser-mode session is listening.
C3_Witness ==
  /\ Len(transcribeInFlight) > 0
  /\ recognition.state = "listening"
  /\ transcriptionMode = "browser"

\* A configuration for an OpenAI-compatible server with a model and a base
\* URL but no API key.
KeylessLocal(cfg) ==
  /\ Get(cfg, "provider") = "openai-compatible"
  /\ Truthy(Get(cfg, "model")) /\ Truthy(Get(cfg, "baseURL"))
  /\ Falsy(Get(cfg, "apiKey"))

\* Pressing Record in LLM mode with such a configuration begins setting up a
\* capture.
C10_RecordStarts ==
  (RecordButton /\ KeylessLocal(transcriptionConfig)
     /\ transcriptionMode = "llm" /\ ~isRecording)
    => Len(micPending') = Len(micPending) + 1

\* C10: with provider openai-compatible the API key is optional end to end:
\* the key-less configuration passes Save validation, an LLM-mode recording can
\* be started with it, and the routes make their remote call for the resulting
\* requests.
C10_KeyOptionalEndToEnd ==
  /\ [](KeylessLocal(transcriptionConfig) =>
          /\ validateConfig(transcriptionConfig, "Transcription") = ""
          /\ validateConfig(transcriptionConfig, "Polishing") = ""
          /\ \A a \in AudioBlobs, net \in NetOutcomes :
               /\ Len(TranscribePOST(TranscribeRequest(a, transcriptionConfig,
                                                       TRANSCRIPTION_PROMPT), net).calls) = 1
               /\ Len(PolishPOST(PolishRequest("typed", DEFAULT_PROMPT, << >>,
                                               transcriptionConfig), net).calls) = 1)
  /\ [][C10_RecordStarts]_vars

\* The parts of C10 other than starting a recording (Save validation and the
\* two routes), on their own.
C10_SaveAndRoutesAccept ==
  KeylessLocal(transcriptionConfig) =>
    /\ validateConfig(transcriptionConfig, "Transcription") = ""
    /\ validateConfig(transcriptionConfig, "Polishing") = ""
    /\ \A a \in AudioBlobs, net \in NetOutcomes :
         /\ Len(TranscribePOST(TranscribeRequest(a, transcriptionConfig,
                                                 TRANSCRIPTION_PROMPT), net).calls) = 1
         /\ Len(PolishPOST(PolishRequest("typed", DEFAULT_PROMPT, << >>,
                                         transcriptionConfig), net).calls) = 1

\* A key-less configuration is loaded, the page is in LLM mode and idle.
C10_KeylessLoaded ==
  /\ KeylessLocal(transcriptionConfig)
  /\ transcriptionMode = "llm" /\ ~isRecording /\ micPending = << >>

----------------------------------------------------------------------------
(* Properties of local storage *)

\* A step that changes local storage is a Save with both configurations
\* accepted, and it writes both keys from the configurations in memory.
C4_StorageStep ==
  localStorage' # localStorage =>
    /\ showLLMConfig /\ lastOp' = "saved"
    /\ \/ /\ validateConfig(transcriptionConfig, "Transcription") = ""
          /\ validateConfig(polishingConfig, "Polishing") = ""
       \/ LegacyComplete(transcriptionConfig) /\ LegacyComplete(polishingConfig)
    /\ localStorage' = SaveWrites(localStorage, transcriptionConfig, polishingConfig)

\* C4: local storage holds nothing but the two configuration keys, both or
\* neither; it changes only in a Save that accepted both configurations, which
\* writes both; no other operation (text, prompt, example, mode edits, a
\* rejected Save) changes it.
C4_OnlySaveWritesBoth ==
  /\ [](/\ DOMAIN localStorage \subseteq {TKey, PKey}
        /\ HasItem(localStorage, TKey) <=> HasItem(localStorage, PKey)
        /\ \A k \in DOMAIN localStorage : DOMAIN localStorage[k] \subseteq ConfigFields)
  /\ [][C4_StorageStep]_vars

\* C4 witness: the transcription configuration is valid, the polishing
\* configuration is not, Save was pressed and storage holds neither key; the
\* page has a transcript and an example that are not in storage either.
C4_Witness ==
  /\ lastOp = "save-rejected-polishing"
  /\ validateConfig(transcriptionConfig, "Transcription") = ""
  /\ validateConfig(polishingConfig, "Polishing") # ""
  /\ localStorage = EmptyStorage
  /\ rawTranscript = "typed" /\ examples # << >>

\* cfg and the configuration it was saved from agree on every field.
SameFields(cfg, saved) ==
  \A f \in ConfigFields : Get(cfg, f) = Get(saved, f)

\* C5: right after a mount, each configuration equals, field for field, the
\* one in memory at the last successful Save; with no key in storage it is the
\* built-in default.
C5_RoundTrip ==
  lastOp = "mount" =>
    /\ atSave.saved =>
         /\ SameFields(transcriptionConfig, atSave.t)
         /\ SameFields(polishingConfig, atSave.p)
    /\ ~HasItem(localStorage, TKey) => transcriptionConfig = DefaultConfig
    /\ ~HasItem(localStorage, PKey) => polishingConfig = DefaultConfig

\* C5 witness: a reload after saving configurations that have an undefined
\* field (dropped from the JSON text) and empty-string fields.
C5_Witness ==
  /\ lastOp = "mount" /\ atSave.saved
  /\ Get(atSave.t, "provider") = "openai-compatible"
  /\ Get(atSave.t, "apiKey") = ""
  /\ "apiVersion" \in DOMAIN atSave.t /\ atSave.t["apiVersion"] = UNDEF
  /\ "apiVersion" \notin DOMAIN transcriptionConfig
  /\ Get(atSave.p, "apiVersion") = ""

----------------------------------------------------------------------------
(* Properties of the page *)

\* A step of starting, stopping or transcribing a recording.
RecordingStep ==
  \/ RecordButton \/ EscapeKey \/ MicrophoneGranted \/ MicrophoneDenied
  \/ onresult \/ onerror \/ onend
  \/ \E i \in 1..MaxPageRecorders, a \in AudioBlobs : onstop(i, a)
  \/ \E i \in 1..MaxPageRecorders, net \in NetOutcomes : TranscribeSettled(i, net)

C9_Step ==
  /\ RecordingStep => UNCHANGED << polishInFlight, isPolishing, polishedTranscript >>
  /\ Len(polishInFlight') > Len(polishInFlight) => (PolishButton \/ PolishShortcut)
  /\ polishedTranscript' # polishedTranscript =>
       \/ \E i \in 1..MaxPagePolish, net \in NetOutcomes :
            PolishSettled(i, net) /\ PolishPOST(polishInFlight[i], net).status = 200
       \/ \E v \in PolishedChoices : onPolishedChange(v)
       \/ clearAll
       \/ Mount

\* C9: no step of starting, stopping or transcribing a recording sends a polish
\* request or changes the polished transcript; a polish request is sent only by
\* the Polish button or its shortcut; the polished transcript changes only when
\* a polish request completes, when the user edits the polished text area, on
\* Clear, or when the page is loaded afresh.
C9_PolishOnlyOnRequest ==
  [][C9_Step]_vars

\* C9 witness: a recording has been transcribed by the remote route and no
\* polish request has ever been answered or is on its way.
C9_Witness ==
  /\ rawTranscript = "remote text"
  /\ polishedTranscript = ""
  /\ polishInFlight = << >> /\ ~isPolishing
  /\ polishCall = NoCall

----------------------------------------------------------------------------
(* Properties of the routes: unrecognised providers, API keys *)

\* The adapter /api/polish falls back to.
FallbackAdapter == Adapter("openai", "gpt-4o-mini", UNDEF, UNDEF, UNDEF)

\* C11: /api/polish does not reject a request whose provider string is not a
\* recognised provider: it builds the OpenAI adapter with model gpt-4o-mini,
\* without the request's model or API key, and makes its remote call with it;
\* the answer is 200 or 500 as that call goes, never 400.
C11_PolishFallsBack ==
  PolishHandled =>
    LET req == polishCall.req  res == polishCall.res
    IN  (Default(req.provider, "openai") \notin AllProviders /\ ~PolishMissing(req)) =>
          /\ res.adapters = << FallbackAdapter >>
          /\ res.calls = << GenerateTextCall(FallbackAdapter) >>
          /\ res.status = (IF polishCall.net.ok THEN 200 ELSE 500)

\* C11 witness: a polish request naming an unknown provider, with a model and
\* a key of its own, was answered 200.
C11_Witness ==
  /\ PolishHandled
  /\ polishCall.req.provider = "bogus"
  /\ polishCall.req.model = "gpt-4o" /\ polishCall.req.apiKey = "sk-1"
  /\ polishCall.res.status = 200 /\ polishCall.res.value = "remote text"

\* The providers each revision of /api/transcribe supports.
SupportedBy(route) ==
  IF route = "transcribe" THEN AllProviders ELSE {"openai", "anthropic", "google"}

\* The request passes the route's required-field check and its audio is a file.
TranscribeWellFormed(call) ==
  /\ IsFile(call.req.audio)
  /\ IF call.route = "transcribe" THEN ~TranscribeMissing(call.req)
                                  ELSE ~LegacyTranscribeMissing(call.req)

\* C12: /api/transcribe answers a request naming a provider it does not
\* support (the request being otherwise well-formed) with 400 'Unsupported
\* provider', and makes no request to an AI provider.
C12_TranscribeRejectsUnknown ==
  TranscribeHandled =>
    LET req == transcribeCall.req  res == transcribeCall.res
    IN  (TranscribeWellFormed(transcribeCall)
           /\ req.provider \notin SupportedBy(transcribeCall.route)) =>
          /\ res.status = 400
          /\ res.field = "error" /\ res.error = "Unsupported provider"
          /\ res.calls = << >> /\ res.adapters = << >>

\* C12 witness: a complete transcribe request naming an unknown provider was
\* answered 400.
C12_Witness ==
  /\ transcribeCall.route = "transcribe"
  /\ transcribeCall.req.provider = "bogus"
  /\ transcribeCall.req.audio = "file:webm" /\ transcribeCall.req.model = "gpt-4o"
  /\ transcribeCall.req.apiKey = "sk-1" /\ transcribeCall.net.ok
  /\ transcribeCall.res.status = 400

\* The JSON body and status of a response.
Body(res) == [status |-> res.status, field |-> res.field,
              value |-> res.value, error |-> res.error]

\* Keys a request may carry instead of the one it carried: none, an empty
\* one, two different non-empty ones.
KeyAlternatives == {UNDEF, NULL, "", "sk-1", "sk-2"}

\* The response the route that handled `call` gives to request req.
RouteOf(call, req, net) ==
  CASE call.route = "polish" -> PolishPOST(req, net)
    [] call.route = "transcribe" -> TranscribePOST(req, net)
    [] call.route = "legacy-transcribe" -> LegacyTranscribePOST(req, net)

\* The response is a function of the request in hand and of the provider's
\* answer to it: nothing of an earlier request takes part.
Stateless(call) == call.res = RouteOf(call, call.req, call.net)

\* No field of the body is the key.
KeyNotInBody(call) ==
  Truthy(call.req.apiKey) =>
    /\ call.res.value # call.req.apiKey
    /\ call.res.error # call.req.apiKey
    /\ call.res.field # call.req.apiKey

\* Every failing request that differs from the handled one only in a key of
\* `keys` gets the body the handled one got.
SameFailureFor(call, keys) ==
  call.res.status # 200 =>
    \A k \in keys, net \in NetOutcomes :
      LET other == RouteOf(call, [call.req EXCEPT !.apiKey = k], net)
      IN  other.status # 200 => Body(other) = Body(call.res)

HandledCalls == {c \in {polishCall, transcribeCall} : c.route # "none"}

\* C13 (as stated): the routes keep no key between requests, no response body
\* contains the key, and two failing requests that differ only in the key get
\* identical responses.
C13_KeyIndependent ==
  \A call \in HandledCalls :
    /\ Stateless(call)
    /\ KeyNotInBody(call)
    /\ SameFailureFor(call, KeyAlternatives)

\* Keys alike in being present: the non-empty ones when k is non-empty, the
\* empty and absent ones otherwise.
KeysLike(k) == {j \in KeyAlternatives : Truthy(j) <=> Truthy(k)}

\* C13 (amended): the routes keep no key between requests and no response
\* body contains the key; two failing requests that differ only in the value
\* of a non-empty key (or only in how the key is missing) get identical
\* responses, and two failing polish requests get identical responses
\* whatever their keys.  A failing transcribe request without a key may be
\* answered differently from one with a key.
C13_KeyValueIndependent ==
  \A call \in HandledCalls :
    /\ Stateless(call)
    /\ KeyNotInBody(call)
    /\ SameFailureFor(call, KeysLike(call.req.apiKey))
    /\ (call.route = "polish" /\ ~PolishMissing(call.req)) =>
         SameFailureFor(call, KeyAlternatives)

\* C13 witness: a polish request with a key failed at the provider and was
\* answered 500.
C13_Witness ==
  /\ PolishHandled
  /\ polishCall.req.apiKey = "sk-1" /\ polishCall.req.provider = "anthropic"
  /\ Len(polishCall.res.calls) = 1 /\ ~polishCall.net.ok
  /\ polishCall.res.status = 500

----------------------------------------------------------------------------
(* Properties of the configuration panel *)

OtherSide(side) == IF side = "transcription" THEN "polishing" ELSE "transcription"

\* An edit of a field of the configuration of `side` in the panel.
EditOf(side) ==
  \/ \E v \in ProviderChoices(side) : SelectProvider(side, v)
  \/ \E v \in ModelChoices : EditModel(side, v)
  \/ \E v \in KeyChoices : EditApiKey(side, v)
  \/ \E v \in URLChoices : EditBaseURL(side, v)
  \/ \E v \in VersionChoices : EditApiVersion(side, v)

\* An edit of one configuration leaves the other as it was.
C14_EditStep ==
  \A side \in Sides :
    EditOf(side) => ConfigOf(OtherSide(side))' = ConfigOf(OtherSide(side))

\* The request bodies the page builds from the configurations in memory carry
\* the fields of their own configuration.
RequestsCarryOwn ==
  /\ \A a \in AudioValues :
       LET req == TranscribeRequest(a, transcriptionConfig, TRANSCRIPTION_PROMPT)
       IN  /\ req.provider = Get(transcriptionConfig, "provider")
           /\ req.model = Get(transcriptionConfig, "model")
           /\ Carries(req.apiKey, Get(transcriptionConfig, "apiKey"))
           /\ Carries(req.baseURL, Get(transcriptionConfig, "baseURL"))
           /\ Carries(req.apiVersion, Get(transcriptionConfig, "apiVersion"))
  /\ LET req == PolishRequest("typed", systemPrompt, examples, polishingConfig)
     IN  \A f \in ConfigFields : req[f] = Get(polishingConfig, f)

----------------------------------------------------------------------------
(* Properties of the routes: requests without an API key *)

\* The providers the panel requires an API key for.
KeyedProviders == AllProviders \ {"openai-compatible"}

\* C15: a polish or transcribe request that names openai, azure-openai,
\* anthropic, google or mistral and carries no API key ends in an error
\* response (400 or 500) without any outbound call to the provider.
C15_KeyRequired ==
  \A call \in HandledCalls :
    (call.req.provider \in KeyedProviders /\ Falsy(call.req.apiKey)) =>
      /\ call.res.status \in {400, 500}
      /\ call.res.calls = << >>

\* A transcribe request naming anthropic without a key was passed on to the
\* provider and answered 200.
C15_KeylessServed ==
  /\ transcribeCall.route = "transcribe"
  /\ transcribeCall.req.provider = "anthropic" /\ Falsy(transcribeCall.req.apiKey)
  /\ Len(transcribeCall.res.calls) = 1
  /\ transcribeCall.res.status = 200

\* Where a key-less request naming a keyed provider is refused before any
\* call: /api/polish for anthropic, google and mistral; /api/transcribe for
\* openai and azure-openai; the earlier /api/transcribe for every provider.
RefusesKeyless(route, provider) ==
  CASE route = "polish" -> provider \in {"anthropic", "google", "mistral"}
    [] route = "transcribe" -> provider \in {"openai", "azure-openai"}
    [] route = "legacy-transcribe" -> TRUE

\* The key-less requests the routes do refuse, and those they pass on.
C15_WhereKeyRequired ==
  \A call \in HandledCalls :
    (call.req.provider \in KeyedProviders /\ Falsy(call.req.apiKey)) =>
      IF RefusesKeyless(call.route, call.req.provider)
        THEN call.res.status \in {400, 500} /\ call.res.calls = << >>
        ELSE ((call.route = "polish" /\ ~PolishMissing(call.req))
                \/ (call.route = "transcribe" /\ TranscribeWellFormed(call)))
               => Len(call.res.calls) = 1

----------------------------------------------------------------------------
(* Properties of validation and Save *)

\* The conditions under which a configuration is to be accepted.
Acceptable(cfg) ==
  /\ Truthy(Get(cfg, "provider"))
  /\ Truthy(Get(cfg, "model"))
  /\ Get(cfg, "provider") = "openai-compatible" \/ Truthy(Get(cfg, "apiKey"))
  /\ Get(cfg, "provider") \in {"azure-openai", "openai-compatible"}
       => Truthy(Get(cfg, "baseURL"))

\* Configuration objects a page load may find in storage: complete ones,
\* ones with empty fields, ones with fields left out.
AnyConfigs ==
  [provider : AllProviders \cup {"", UNDEF},
   model : {"", "gpt-4o"},
   apiKey : {UNDEF, "", "sk-1"},
   baseURL : {UNDEF, "", "http://localhost:11434/v1"}]

\* validateConfig accepts exactly the acceptable configurations, and reports
\* the first failing check in the order provider, model, API key, base URL.
ValidatesExactly(cfg, kind) ==
  LET msg == validateConfig(cfg, kind)
  IN  /\ msg = "" <=> Acceptable(cfg)
      /\ Falsy(Get(cfg, "provider")) => msg = kind \o ": Select a provider"
      /\ (Truthy(Get(cfg, "provider")) /\ Falsy(Get(cfg, "model")) /\ msg # "")
           => msg \in {kind \o ": Select or enter a model",
                       kind \o ": Select or enter a model (deployment name)"}
      /\ (Truthy(Get(cfg, "provider")) /\ Truthy(Get(cfg, "model"))
            /\ Falsy(Get(cfg, "apiKey")) /\ Get(cfg, "provider") # "openai-compatible")
           => msg = kind \o ": API key is required"

\* Save: the transcription configuration is checked first; a rejected Save
\* reports that side, keeps the panel open and writes nothing; Save closes
\* the panel exactly when both configurations are acceptable.
C16_SaveStep ==
  handleSave =>
    IF ~Acceptable(transcriptionConfig)
      THEN lastOp' = "save-rejected-transcription" /\ showLLMConfig' /\ UNCHANGED localStorage
    ELSE IF ~Acceptable(polishingConfig)
      THEN lastOp' = "save-rejected-polishing" /\ showLLMConfig' /\ UNCHANGED localStorage
    ELSE lastOp' = "saved" /\ ~showLLMConfig'

\* C16: validateConfig accepts a configuration exactly when provider and
\* model are non-empty, the API key is non-empty unless the provider is
\* openai-compatible, and the base URL is non-empty for azure-openai and
\* openai-compatible; Save checks the transcription configuration before the
\* polishing one, reports only the first failing check, and closes the panel
\* only when both are accepted.
C16_ValidationAndSave ==
  /\ [](/\ ValidatesExactly(transcriptionConfig, "Transcription")
        /\ ValidatesExactly(polishingConfig, "Polishing")
        /\ lastOp = "mount" =>
             \A cfg \in AnyConfigs : ValidatesExactly(cfg, "Transcription"))
  /\ [][C16_SaveStep]_vars

\* C16 witness: both configurations were unacceptable (an Azure configuration
\* without base URL, a polishing configuration without model); Save reported
\* the transcription one and the panel is still open.
C16_Witness ==
  /\ lastOp = "save-rejected-transcription" /\ showLLMConfig
  /\ Get(transcriptionConfig, "provider") = "azure-openai"
  /\ Truthy(Get(transcriptionConfig, "model")) /\ Truthy(Get(transcriptionConfig, "apiKey"))
  /\ Falsy(Get(transcriptionConfig, "baseURL"))
  /\ Falsy(Get(polishingConfig, "model"))

----------------------------------------------------------------------------
(* Properties of polish requests in flight *)

\* A press of the Polish button or of its shortcut.
PolishPress == PolishButton \/ PolishShortcut

\* While isPolishing is true a press issues no request.
C17_NoRequestWhilePolishing ==
  (isPolishing /\ PolishPress) => polishInFlight' = polishInFlight

\* A press with an empty or whitespace-only raw transcript issues no request
\* and leaves isPolishing and both transcripts unchanged.
C17_EmptyPress ==
  (PolishPress /\ Falsy(Trim(rawTranscript))) =>
    UNCHANGED << polishInFlight, isPolishing, rawTranscript, polishedTranscript >>

\* C17: at most one polish request is in flight at any time: while
\* isPolishing is true neither the Polish button nor Ctrl/Cmd+Enter issues a
\* further request; a press with an empty or whitespace-only raw transcript
\* issues no request and changes neither isPolishing nor the transcripts.
C17_OnePolishInFlight ==
  /\ [](Len(polishInFlight) <= 1)
  /\ [][C17_NoRequestWhilePolishing]_vars
  /\ [][C17_EmptyPress]_vars

\* Two polish requests are in flight.
C17_TwoInFlight ==
  /\ Len(polishInFlight) = 2 /\ isPolishing

\* The part of C17 about an empty transcript, on its own.
C17_EmptyPressOnly ==
  [][C17_EmptyPress]_vars

\* A press with a whitespace-only transcript has just been handled.
C17_BlankTranscript ==
  rawTranscript = " " /\ polishInFlight = << >> /\ ~isPolishing

----------------------------------------------------------------------------
(* Properties of transcription requests in flight *)

\* A step that starts a recording: a start request asks for the microphone,
\* a MediaRecorder is created and started, or the recogniser starts.
StartsCapture ==
  \/ Len(micPending') > Len(micPending)
  \/ Len(recorders') > Len(recorders)
  \/ recognition.state # "listening" /\ recognition'.state = "listening"

\* While isTranscribing is true no recording is started.
C18_NoStartWhileTranscribing ==
  isTranscribing => ~StartsCapture

\* A response that sets the raw transcript answers the request of the
\* recording stopped last, not an older one that is still waiting.
C18_NewestAnswers ==
  \A i \in 1..MaxRecorders, net \in NetOutcomes :
    (/\ TranscribeSettled(i, net)
     /\ TranscribePOST(transcribeInFlight[i].req, net).status = 200)
      => i = Len(transcribeInFlight)

\* C18: while a transcription request is in flight (isTranscribing is true)
\* no new recording can be started, so two transcription requests never
\* overlap and the raw transcript is always set from the most recently
\* stopped recording.
C18_OneTranscriptionInFlight ==
  /\ [](Len(transcribeInFlight) <= 1)
  /\ [][C18_NoStartWhileTranscribing]_vars
  /\ [][C18_NewestAnswers]_vars

\* Two transcription requests are in flight.
C18_TwoTranscriptions ==
  /\ Len(transcribeInFlight) = 2 /\ isTranscribing

\* The parts of C18, each on its own.
C18_NoOverlapOnly == [](Len(transcribeInFlight) <= 1)
C18_NoStartOnly == [][C18_NoStartWhileTranscribing]_vars
C18_NewestOnly == [][C18_NewestAnswers]_vars

====
